---- MODULE Spec2Model ----
(***************************************************************************)
(* Real-time conversation and presence layer of notetake-ai-ultimate:      *)
(* the socket gateway (server/config/socket.ts), the conversation routes   *)
(* (server/routes/conversations.ts) and the message routes                 *)
(* (server/routes/messages.ts), over a document store with single-document *)
(* atomic operations.  Every async handler is a process that advances one  *)
(* awaited store round-trip per step; handlers interleave at the awaits.   *)
(***************************************************************************)
EXTENDS Integers, Sequences, FiniteSets, TLC

\* ------------------------------------------------------------------ bounds
MaxReq == 3        \* REST / socket requests started in one behaviour
MaxInFlight == 2   \* handlers suspended at an await at the same time
MaxConv == 2       \* conversation documents ever created
MaxGwConv == 1     \* conversations created while the gateway is exercised
MaxIds == 2        \* length of a participantIds / memberIds array
MaxMsg == 2        \* message documents ever created
MaxSock == 2       \* socket connections ever opened
MaxTime == 2       \* ticks of the wall clock

\* ------------------------------------------------------- program constants
MAX_GROUP_SIZE == 20
MAX_NAME_LEN == 50
MAX_CONTENT_LEN == 2000
LAST_MESSAGE_PREFIX == 100

\* ------------------------------------------------------------------ values
Users == {"A", "B", "C"}
NoUser == "none"
NoConv == 0
NoSock == 0
NoMsg == [content |-> "null"]

ConvIds == 1..MaxConv

\* A string is kept as its shape: leading blanks, body length, trailing blanks.
Str(pre, len, post) == [pre |-> pre, len |-> len, post |-> post]
Length(s) == s.pre + s.len + s.post
Trim(s) == IF s.len = 0 THEN Str(0, 0, 0) ELSE Str(0, s.len, 0)
Min(a, b) == IF a < b THEN a ELSE b
Substring(s, n) ==
  LET p == Min(s.pre, n)
      l == Min(s.len, n - p)
      q == Min(s.post, n - p - l)
  IN Str(p, l, q)

NameInputs == {Str(0, 0, 0), Str(1, 0, 1), Str(1, 4, 0)}

RECURSIVE SeqsUpTo(_, _)
SeqsUpTo(S, n) ==
  IF n = 0 THEN {<<>>}
  ELSE LET shorter == SeqsUpTo(S, n - 1)
       IN shorter \cup {Append(q, x) : q \in {t \in shorter : Len(t) = n - 1}, x \in S}
IdLists == SeqsUpTo(Users, MaxIds)
Range(q) == {q[i] : i \in 1..Len(q)}

VARIABLES
  friendships,   \* Friendship documents
  convs,         \* Conversation documents, by _id
  nextConv,      \* next Conversation _id
  msgs,          \* Message documents, by _id
  nextMsg,       \* next Message _id
  reqs,          \* handlers suspended at an await, by request number
  nreq,          \* requests started so far
  lastResp,      \* the reply of the handler that finished last
  socks,         \* socket connections, by socket id
  onlineUsers,   \* the Map userId -> socketId of socket.ts
  userDoc,       \* User documents: isOnline, lastSeen
  emitted,       \* events emitted so far, in order, with their receivers
  now            \* wall clock

vars == <<friendships, convs, nextConv, msgs, nextMsg, reqs, nreq, lastResp,
          socks, onlineUsers, userDoc, emitted, now>>

dirVars == <<convs, nextConv>>
gwVars == <<socks, onlineUsers, userDoc, emitted>>

\* --------------------------------------------------------------- the store
\* The friendship query without its status filter.
Accepted_AnyStatus(u, v) ==
  \E f \in friendships :
    \/ (f.requester = u /\ f.recipient = v)
    \/ (f.requester = v /\ f.recipient = u)

\* Friendship.findOne({$or: [{requester: u, recipient: v},
\*                           {requester: v, recipient: u}], status: "accepted"})
Accepted(u, v) ==
  \E f \in friendships :
    /\ f.status = "accepted"
    /\ \/ (f.requester = u /\ f.recipient = v)
       \/ (f.requester = v /\ f.recipient = u)

Exists(c) == c \in DOMAIN convs

\* The lookup without its participants filter.
FindForParticipant_AnyUser(c, u) == Exists(c)

\* Conversation.findOne({ _id, participants: userId })
FindForParticipant(c, u) == Exists(c) /\ u \in convs[c].participants

\* The lookup with participants: userId in place of admin: userId.
FindForAdmin_AnyMember(c, u) ==
  Exists(c) /\ convs[c].type = "group" /\ u \in convs[c].participants

\* Conversation.findOne({ _id, type: "group", admin: userId })
FindForAdmin(c, u) == Exists(c) /\ convs[c].type = "group" /\ convs[c].admin = u

\* Conversation.findOne({ type: "personal", participants: { $all, $size: 2 } })
PersonalMatches(all) ==
  {c \in DOMAIN convs : convs[c].type = "personal" /\ convs[c].participants = all}

Put(f, k, v) == [x \in (DOMAIN f) \cup {k} |-> IF x = k THEN v ELSE f[x]]
Drop(f, k) == [x \in (DOMAIN f) \ {k} |-> f[x]]

\* ---------------------------------------------------------------- requests
InFlight == DOMAIN reqs
CanStart == nreq < MaxReq /\ Cardinality(InFlight) < MaxInFlight
Sending == {r \in InFlight : reqs[r].kind \in {"sockSend", "restSend"}}

Begin(rec) ==
  /\ nreq' = nreq + 1
  /\ reqs' = Put(reqs, nreq + 1, rec)
  /\ lastResp' = lastResp

\* A handler that answers in its first synchronous stretch.
Reject(kind, u, status) ==
  /\ nreq' = nreq + 1
  /\ reqs' = reqs
  /\ lastResp' = [kind |-> kind, user |-> u, status |-> status, body |-> NoConv]

Advance(r, rec) ==
  /\ reqs' = [reqs EXCEPT ![r] = rec]
  /\ UNCHANGED <<nreq, lastResp>>

Respond(r, status, body) ==
  /\ reqs' = Drop(reqs, r)
  /\ lastResp' = [kind |-> reqs[r].kind, user |-> reqs[r].user,
                  status |-> status, body |-> body]
  /\ UNCHANGED nreq

\* ------------------------------------------- POST /api/conversations
AllParticipants(u, pids) == {u} \cup Range(pids)

NewConv(type, all, name, admin) ==
  [type |-> type, participants |-> all, name |-> name, admin |-> admin,
   lastMessage |-> NoMsg, v |-> 0]

\* The body checks made before the first await.
PostConvBodyOk(u, type, pids, name) ==
  LET all == AllParticipants(u, pids)
  IN CASE type = "personal" -> Cardinality(all) = 2
       [] type = "group" -> /\ Length(name) # 0 /\ Length(Trim(name)) # 0
                            /\ Cardinality(all) <= MAX_GROUP_SIZE
                            /\ Cardinality(all) >= 2
       [] OTHER -> FALSE

\* After Friendship.findOne for participantIds[i] returned a friendship; okd
\* records the users a friendship was found for.
PostConvAfterFriend(q) ==
  LET k == [q EXCEPT !.okd = @ \cup {q.pids[q.i]}]
  IN IF q.type = "personal" THEN [k EXCEPT !.pc = "exist"]
     ELSE IF q.i < Len(q.pids) THEN [k EXCEPT !.i = q.i + 1]
     ELSE [k EXCEPT !.pc = "create"]

\* The request arrives and its first query, Friendship.findOne for
\* participantIds[0], returns.
PostConvStart(u, type, pids, name) ==
  /\ CanStart
  /\ LET q == [kind |-> "postConv", user |-> u, type |-> type, pids |-> pids,
               name |-> name, i |-> 1, conv |-> NoConv, pc |-> "friend",
               seen |-> PersonalMatches(AllParticipants(u, pids)),
               quiet |-> InFlight = {}, okd |-> {}]
     IN IF ~PostConvBodyOk(u, type, pids, name) THEN Reject("postConv", u, 400)
        ELSE IF ~Accepted(u, pids[1]) THEN Reject("postConv", u, 400)
        ELSE Begin(PostConvAfterFriend(q))
  /\ UNCHANGED <<friendships, dirVars, msgs, nextMsg, gwVars, now>>

\* Friendship.findOne for participantIds[i], i > 0, returns.
PostConvFriend(r) ==
  /\ r \in InFlight /\ reqs[r].kind = "postConv" /\ reqs[r].pc = "friend"
  /\ LET q == reqs[r]
     IN IF ~Accepted(q.user, q.pids[q.i])
        THEN Respond(r, 400, NoConv)
        ELSE Advance(r, PostConvAfterFriend(q))
  /\ UNCHANGED <<friendships, dirVars, msgs, nextMsg, gwVars, now>>

\* Conversation.findOne({type: "personal", participants: {$all, $size: 2}}) returns.
PostConvExist(r) ==
  /\ r \in InFlight /\ reqs[r].kind = "postConv" /\ reqs[r].pc = "exist"
  /\ LET q == reqs[r]
         found == PersonalMatches(AllParticipants(q.user, q.pids))
     IN IF found # {}
        THEN \E c \in found : Respond(r, 200, c)
        ELSE Advance(r, [q EXCEPT !.pc = "create"])
  /\ UNCHANGED <<friendships, dirVars, msgs, nextMsg, gwVars, now>>

\* Conversation.create returns.
PostConvCreate(r) ==
  /\ r \in InFlight /\ reqs[r].kind = "postConv" /\ reqs[r].pc = "create"
  /\ nextConv <= MaxConv
  /\ LET q == reqs[r]
         all == AllParticipants(q.user, q.pids)
         doc == IF q.type = "personal"
                THEN NewConv("personal", all, Str(0, 0, 0), NoUser)
                ELSE NewConv("group", all, Trim(q.name), q.user)
     IN IF q.type = "group" /\ Length(Trim(q.name)) > MAX_NAME_LEN
        THEN Respond(r, 500, NoConv) /\ UNCHANGED dirVars
        ELSE /\ convs' = Put(convs, nextConv, doc)
             /\ nextConv' = nextConv + 1
             /\ Advance(r, [q EXCEPT !.pc = "populate", !.conv = nextConv])
  /\ UNCHANGED <<friendships, msgs, nextMsg, gwVars, now>>

\* Conversation.findById(conversation._id).populate(...) returns.
PostConvPopulate(r) ==
  /\ r \in InFlight /\ reqs[r].kind = "postConv" /\ reqs[r].pc = "populate"
  /\ Respond(r, 201, IF Exists(reqs[r].conv) THEN reqs[r].conv ELSE NoConv)
  /\ UNCHANGED <<friendships, dirVars, msgs, nextMsg, gwVars, now>>

\* --------------------------------- document.save() of a loaded Conversation
\* A save that writes the participants without the version condition.
SaveParticipants_Unversioned(c, loaded, v, parts) ==
  IF ~Exists(c) THEN [ok |-> FALSE, convs |-> convs]
  ELSE IF parts = loaded THEN [ok |-> TRUE, convs |-> convs]
  ELSE [ok |-> TRUE,
        convs |-> [convs EXCEPT ![c].participants = parts, ![c].v = v + 1]]

\* Assigning the participants array makes save() send it with the loaded
\* version in the filter and increment the version; an unchanged document
\* only checks that it still exists.
SaveParticipants(c, loaded, v, parts) ==
  IF ~Exists(c) THEN [ok |-> FALSE, convs |-> convs]
  ELSE IF parts = loaded THEN [ok |-> TRUE, convs |-> convs]
  ELSE IF convs[c].v # v THEN [ok |-> FALSE, convs |-> convs]
  ELSE [ok |-> TRUE,
        convs |-> [convs EXCEPT ![c].participants = parts, ![c].v = v + 1]]

\* ------------------------------- PUT /api/conversations/:id/members
\* The handler without its "Admin cannot be removed" check.
MembersFound_AdminRemovable(u, c, action, mids) ==
  IF ~FindForAdmin(c, u) THEN [status |-> 404]
  ELSE LET P == convs[c].participants
           q == [kind |-> "members", user |-> u, conv |-> c, action |-> action,
                 mids |-> mids, i |-> 1, loaded |-> P, parts |-> P,
                 v |-> convs[c].v, pc |-> "save", okd |-> {}]
       IN CASE action = "add" ->
                 IF Cardinality(P) + Len(mids) > MAX_GROUP_SIZE THEN [status |-> 400]
                 ELSE IF Len(mids) > 0 THEN [status |-> 0, rec |-> [q EXCEPT !.pc = "friend"]]
                 ELSE [status |-> 0, rec |-> q]
            [] action = "remove" ->
                 IF Cardinality(P \ Range(mids)) < 2 THEN [status |-> 400]
                 ELSE [status |-> 0, rec |-> [q EXCEPT !.parts = P \ Range(mids)]]
            [] OTHER -> [status |-> 400]

\* The handler without its "Group cannot exceed" check.
MembersFound_NoMaxCheck(u, c, action, mids) ==
  IF ~FindForAdmin(c, u) THEN [status |-> 404]
  ELSE LET P == convs[c].participants
           q == [kind |-> "members", user |-> u, conv |-> c, action |-> action,
                 mids |-> mids, i |-> 1, loaded |-> P, parts |-> P,
                 v |-> convs[c].v, pc |-> "save", okd |-> {}]
       IN CASE action = "add" ->
                 IF Len(mids) > 0 THEN [status |-> 0, rec |-> [q EXCEPT !.pc = "friend"]]
                 ELSE [status |-> 0, rec |-> q]
            [] action = "remove" ->
                 IF u \in Range(mids) THEN [status |-> 400]
                 ELSE IF Cardinality(P \ Range(mids)) < 2 THEN [status |-> 400]
                 ELSE [status |-> 0, rec |-> [q EXCEPT !.parts = P \ Range(mids)]]
            [] OTHER -> [status |-> 400]

\* What the handler does once Conversation.findOne({_id, type: "group",
\* admin: userId}) has returned: an answer, or the state at its next await.
MembersFound(u, c, action, mids) ==
  IF ~FindForAdmin(c, u) THEN [status |-> 404]
  ELSE LET P == convs[c].participants
           q == [kind |-> "members", user |-> u, conv |-> c, action |-> action,
                 mids |-> mids, i |-> 1, loaded |-> P, parts |-> P,
                 v |-> convs[c].v, pc |-> "save", okd |-> {}]
       IN CASE action = "add" ->
                 IF Cardinality(P) + Len(mids) > MAX_GROUP_SIZE THEN [status |-> 400]
                 ELSE IF Len(mids) > 0 THEN [status |-> 0, rec |-> [q EXCEPT !.pc = "friend"]]
                 ELSE [status |-> 0, rec |-> q]
            [] action = "remove" ->
                 IF u \in Range(mids) THEN [status |-> 400]
                 ELSE IF Cardinality(P \ Range(mids)) < 2 THEN [status |-> 400]
                 ELSE [status |-> 0, rec |-> [q EXCEPT !.parts = P \ Range(mids)]]
            [] OTHER -> [status |-> 400]

\* The request arrives and its first query returns.
MembersStart(u, c, action, mids) ==
  /\ CanStart
  /\ LET out == MembersFound(u, c, action, mids)
     IN IF out.status # 0 THEN Reject("members", u, out.status)
        ELSE Begin(out.rec)
  /\ UNCHANGED <<friendships, dirVars, msgs, nextMsg, gwVars, now>>

\* Friendship.findOne for memberIds[i] returns.
MembersFriend(r) ==
  /\ r \in InFlight /\ reqs[r].kind = "members" /\ reqs[r].pc = "friend"
  /\ LET q == reqs[r]
         k == [q EXCEPT !.okd = @ \cup {q.mids[q.i]}]
     IN IF ~Accepted(q.user, q.mids[q.i]) THEN Respond(r, 400, NoConv)
        ELSE IF q.i < Len(q.mids)
             THEN Advance(r, [k EXCEPT !.i = q.i + 1])
             ELSE Advance(r, [k EXCEPT !.parts = q.loaded \cup Range(q.mids),
                                       !.pc = "save"])
  /\ UNCHANGED <<friendships, dirVars, msgs, nextMsg, gwVars, now>>

\* conversation.save() returns.
MembersSave(r) ==
  /\ r \in InFlight /\ reqs[r].kind = "members" /\ reqs[r].pc = "save"
  /\ LET q == reqs[r]
         res == SaveParticipants(q.conv, q.loaded, q.v, q.parts)
     IN /\ convs' = res.convs
        /\ IF res.ok THEN Advance(r, [q EXCEPT !.pc = "populate"])
           ELSE Respond(r, 500, NoConv)
  /\ UNCHANGED <<friendships, nextConv, msgs, nextMsg, gwVars, now>>

\* Conversation.findById(conversationId).populate(...) returns.
MembersPopulate(r) ==
  /\ r \in InFlight /\ reqs[r].kind = "members" /\ reqs[r].pc = "populate"
  /\ Respond(r, 200, IF Exists(reqs[r].conv) THEN reqs[r].conv ELSE NoConv)
  /\ UNCHANGED <<friendships, dirVars, msgs, nextMsg, gwVars, now>>

\* ------------------------------------- PUT /api/conversations/:id/name
\* The request arrives and Conversation.findOneAndUpdate({_id, type: "group",
\* admin: userId}, {name: name.trim()}) returns.
Rename(u, c, name) ==
  /\ CanStart
  /\ IF Length(name) = 0 \/ Length(Trim(name)) = 0
     THEN Reject("rename", u, 400) /\ UNCHANGED convs
     ELSE IF ~FindForAdmin(c, u)
     THEN Reject("rename", u, 404) /\ UNCHANGED convs
     ELSE /\ convs' = [convs EXCEPT ![c].name = Trim(name)]
          /\ Reject("rename", u, 200)
  /\ UNCHANGED <<friendships, nextConv, msgs, nextMsg, gwVars, now>>

\* ------------------------------------- POST /api/friends/request/:userId
\* Friendship documents written by these routes carry their _id.
Between(u, v) ==
  {f \in friendships : \/ (f.requester = u /\ f.recipient = v)
                       \/ (f.requester = v /\ f.recipient = u)}

\* The unique index on (requester, recipient): a document other than fid
\* already holds this ordered pair.
DuplicateKey(fid, u, v) ==
  \E g \in friendships : g.id # fid /\ g.requester = u /\ g.recipient = v

\* The request arrives and User.findById(recipientId) returns the user.
FriendReqStart(u, v) ==
  /\ CanStart
  /\ IF u = v THEN Reject("friendReq", u, 400)
     ELSE Begin([kind |-> "friendReq", user |-> u, to |-> v, fid |-> 0, pc |-> "find"])
  /\ UNCHANGED <<friendships, dirVars, msgs, nextMsg, gwVars, now>>

\* Friendship.findOne({$or: both directions}) returns.
FriendReqFind(r) ==
  /\ r \in InFlight /\ reqs[r].kind = "friendReq" /\ reqs[r].pc = "find"
  /\ LET q == reqs[r]
         found == Between(q.user, q.to)
     IN IF found = {} THEN Advance(r, [q EXCEPT !.pc = "create"])
        ELSE \E f \in found :
               IF f.status \in {"accepted", "pending", "blocked"}
               THEN Respond(r, 400, NoConv)
               ELSE Advance(r, [q EXCEPT !.pc = "save", !.fid = f.id])
  /\ UNCHANGED <<friendships, dirVars, msgs, nextMsg, gwVars, now>>

\* Friendship.create({requester, recipient, status: "pending"}) returns.
FriendReqCreate(r) ==
  /\ r \in InFlight /\ reqs[r].kind = "friendReq" /\ reqs[r].pc = "create"
  /\ LET q == reqs[r]
     IN IF DuplicateKey(0, q.user, q.to)
        THEN Respond(r, 500, NoConv) /\ UNCHANGED friendships
        ELSE /\ friendships' = friendships \cup
                  {[id |-> Cardinality(friendships) + 1, requester |-> q.user,
                    recipient |-> q.to, status |-> "pending"]}
             /\ Respond(r, 201, NoConv)
  /\ UNCHANGED <<dirVars, msgs, nextMsg, gwVars, now>>

\* existing.save() of a declined request turned into a new one returns.
FriendReqSave(r) ==
  /\ r \in InFlight /\ reqs[r].kind = "friendReq" /\ reqs[r].pc = "save"
  /\ LET q == reqs[r]
     IN IF DuplicateKey(q.fid, q.user, q.to)
        THEN Respond(r, 500, NoConv) /\ UNCHANGED friendships
        ELSE /\ friendships' =
                  {IF f.id = q.fid
                   THEN [f EXCEPT !.requester = q.user, !.recipient = q.to,
                                  !.status = "pending"]
                   ELSE f : f \in friendships}
             /\ Respond(r, 200, NoConv)
  /\ UNCHANGED <<dirVars, msgs, nextMsg, gwVars, now>>

\* ------------------------------- PUT /api/friends/accept/:friendshipId
\* The request arrives and Friendship.findOne({_id, recipient: userId,
\* status: "pending"}) returns.
AcceptStart(u, fid) ==
  /\ CanStart
  /\ IF \E f \in friendships : f.id = fid /\ f.recipient = u /\ f.status = "pending"
     THEN Begin([kind |-> "accept", user |-> u, to |-> NoUser, fid |-> fid, pc |-> "save"])
     ELSE Reject("accept", u, 404)
  /\ UNCHANGED <<friendships, dirVars, msgs, nextMsg, gwVars, now>>

\* friendship.save() returns.
AcceptSave(r) ==
  /\ r \in InFlight /\ reqs[r].kind = "accept" /\ reqs[r].pc = "save"
  /\ friendships' = {IF f.id = reqs[r].fid THEN [f EXCEPT !.status = "accepted"] ELSE f :
                       f \in friendships}
  /\ Advance(r, [reqs[r] EXCEPT !.pc = "populate"])
  /\ UNCHANGED <<dirVars, msgs, nextMsg, gwVars, now>>

\* Friendship.findById(friendshipId).populate(...) returns.
AcceptPopulate(r) ==
  /\ r \in InFlight /\ reqs[r].kind = "accept" /\ reqs[r].pc = "populate"
  /\ Respond(r, 200, NoConv)
  /\ UNCHANGED <<friendships, dirVars, msgs, nextMsg, gwVars, now>>

\* ---------------------------------------------- DELETE /api/friends/:userId
\* The request arrives and Friendship.findOneAndDelete of an accepted
\* friendship between the caller and friendId returns.
RemoveFriend(u, v) ==
  /\ CanStart
  /\ LET found == {f \in friendships :
                     /\ f.status = "accepted"
                     /\ \/ (f.requester = u /\ f.recipient = v)
                        \/ (f.requester = v /\ f.recipient = u)}
     IN IF found = {}
        THEN Reject("unfriend", u, 404) /\ UNCHANGED friendships
        ELSE /\ \E f \in found : friendships' = friendships \ {f}
             /\ Reject("unfriend", u, 200)
  /\ UNCHANGED <<dirVars, msgs, nextMsg, gwVars, now>>

\* ---------------------------------------- DELETE /api/conversations/:id
\* The handler without its Message.deleteMany call.
DeleteFound_KeepsMessages(u, c) ==
  IF ~FindForParticipant(c, u) THEN [status |-> 404]
  ELSE LET q == [kind |-> "delete", user |-> u, conv |-> c,
                 loaded |-> convs[c].participants, parts |-> convs[c].participants,
                 v |-> convs[c].v, pc |-> "delConv", quiet |-> InFlight = {}]
       IN IF convs[c].type = "personal" \/ convs[c].admin = u
          THEN [status |-> 0, rec |-> q]
          ELSE [status |-> 0,
                rec |-> [q EXCEPT !.parts = convs[c].participants \ {u}, !.pc = "save"]]

\* What the handler does once Conversation.findOne({_id, participants:
\* userId}) has returned.
DeleteFound(u, c) ==
  IF ~FindForParticipant(c, u) THEN [status |-> 404]
  ELSE LET q == [kind |-> "delete", user |-> u, conv |-> c,
                 loaded |-> convs[c].participants, parts |-> convs[c].participants,
                 v |-> convs[c].v, pc |-> "delMsgs", quiet |-> InFlight = {}]
       IN IF convs[c].type = "personal" \/ convs[c].admin = u
          THEN [status |-> 0, rec |-> q]
          ELSE [status |-> 0,
                rec |-> [q EXCEPT !.parts = convs[c].participants \ {u}, !.pc = "save"]]

\* The request arrives and its first query returns.
DeleteStart(u, c) ==
  /\ CanStart
  /\ LET out == DeleteFound(u, c)
     IN IF out.status # 0 THEN Reject("delete", u, out.status)
        ELSE Begin(out.rec)
  /\ UNCHANGED <<friendships, dirVars, msgs, nextMsg, gwVars, now>>

\* Message.deleteMany({conversation}) returns.
DeleteMessages(r) ==
  /\ r \in InFlight /\ reqs[r].kind = "delete" /\ reqs[r].pc = "delMsgs"
  /\ msgs' = [m \in {x \in DOMAIN msgs : msgs[x].conversation # reqs[r].conv} |-> msgs[m]]
  /\ Advance(r, [reqs[r] EXCEPT !.pc = "delConv"])
  /\ UNCHANGED <<friendships, dirVars, nextMsg, gwVars, now>>

\* Conversation.findByIdAndDelete returns.
DeleteConv(r) ==
  /\ r \in InFlight /\ reqs[r].kind = "delete" /\ reqs[r].pc = "delConv"
  /\ convs' = Drop(convs, reqs[r].conv)
  /\ Respond(r, 200, NoConv)
  /\ UNCHANGED <<friendships, nextConv, msgs, nextMsg, gwVars, now>>

\* conversation.save() of a regular member leaving returns.
DeleteSave(r) ==
  /\ r \in InFlight /\ reqs[r].kind = "delete" /\ reqs[r].pc = "save"
  /\ LET q == reqs[r]
         res == SaveParticipants(q.conv, q.loaded, q.v, q.parts)
     IN /\ convs' = res.convs
        /\ Respond(r, IF res.ok THEN 200 ELSE 500, NoConv)
  /\ UNCHANGED <<friendships, nextConv, msgs, nextMsg, gwVars, now>>

\* ---------------------------------------------------- socket.io transport
Event(type, s, u, c, m, to) ==
  [type |-> type, sock |-> s, user |-> u, conv |-> c, msg |-> m, to |-> to]

OpenSocks == {s \in DOMAIN socks : socks[s].open}

\* io.to(`conversation:${c}`): the connected sockets joined to the room.
InRoom(c) == {s \in OpenSocks : c \in socks[s].rooms}

\* socket.broadcast: every connected socket but the emitting one.
Others(s) == OpenSocks \ {s}

\* socket.emit: the socket itself, while it is connected.
Self(s) == {s} \cap OpenSocks

Emit(e) == emitted' = Append(emitted, e)

\* ------------------------------------------- io.on("connection", ...)
\* A handshake passed the authentication middleware for user u; the handler
\* runs to its first await.
Connect(u) ==
  /\ Cardinality(DOMAIN socks) < MaxSock
  /\ LET s == Cardinality(DOMAIN socks) + 1
     IN /\ onlineUsers' = [onlineUsers EXCEPT ![u] = s]
        /\ socks' = Put(socks, s, [user |-> u, open |-> TRUE, connpc |-> "update",
                                   registered |-> FALSE, rooms |-> {},
                                   discpc |-> "none", connectedAt |-> now,
                                   seenAt |-> 0])
  /\ UNCHANGED <<friendships, dirVars, msgs, nextMsg, reqs, nreq, lastResp,
                 userDoc, emitted, now>>

\* ------------------------------------------------ io.use(authentication)
\* socket.handshake.auth.token: absent, or a token naming a user that
\* jwt.verify accepts ("valid") or rejects ("invalid": forged, expired).
Tokens ==
  {[kind |-> "missing", user |-> NoUser]}
    \cup {[kind |-> k, user |-> u] : k \in {"valid", "invalid"}, u \in Users}

\* The middleware reading the payload without verifying the signature.
Verify_Unsigned(token) == token.user

\* The userId the middleware puts in socket.data, or none when it rejects.
Verify(token) == IF token.kind = "valid" THEN token.user ELSE NoUser

\* A handshake arrives.  The middleware rejects it, and the connection
\* handler never runs for it, or the connection handler runs to its first
\* await.
Handshake(token) ==
  IF Verify(token) = NoUser
  THEN /\ Cardinality(DOMAIN socks) < MaxSock
       /\ socks' = Put(socks, Cardinality(DOMAIN socks) + 1,
                       [user |-> NoUser, open |-> FALSE, connpc |-> "rejected",
                        registered |-> FALSE, rooms |-> {}, discpc |-> "none",
                        connectedAt |-> now, seenAt |-> 0])
       /\ UNCHANGED <<friendships, dirVars, msgs, nextMsg, reqs, nreq, lastResp,
                      onlineUsers, userDoc, emitted, now>>
  ELSE Connect(Verify(token))

\* User.findByIdAndUpdate(userId, {isOnline: true}) returns.
ConnUpdated(s) ==
  /\ s \in DOMAIN socks /\ socks[s].connpc = "update"
  /\ userDoc' = [userDoc EXCEPT ![socks[s].user].isOnline = TRUE]
  /\ socks' = [socks EXCEPT ![s].connpc = "find"]
  /\ UNCHANGED <<friendships, dirVars, msgs, nextMsg, reqs, nreq, lastResp,
                 onlineUsers, emitted, now>>

\* Conversation.find({participants: userId}) returns: join the rooms,
\* broadcast user:online, register the event handlers.
ConnFound(s) ==
  /\ s \in DOMAIN socks /\ socks[s].connpc = "find"
  /\ LET u == socks[s].user
         mine == {c \in DOMAIN convs : u \in convs[c].participants}
     IN /\ socks' = [socks EXCEPT ![s].rooms = @ \cup mine,
                                  ![s].registered = TRUE,
                                  ![s].connpc = "done"]
        /\ Emit(Event("user:online", s, u, NoConv, 0, Others(s)))
  /\ UNCHANGED <<friendships, dirVars, msgs, nextMsg, reqs, nreq, lastResp,
                 onlineUsers, userDoc, now>>

\* socket.on("conversation:join")
JoinRoom(s, c) ==
  /\ s \in OpenSocks /\ socks[s].registered
  /\ c \notin socks[s].rooms
  /\ socks' = [socks EXCEPT ![s].rooms = @ \cup {c}]
  /\ UNCHANGED <<friendships, dirVars, msgs, nextMsg, reqs, nreq, lastResp,
                 onlineUsers, userDoc, emitted, now>>

\* socket.on("conversation:leave")
LeaveRoom(s, c) ==
  /\ s \in OpenSocks /\ socks[s].registered
  /\ c \in socks[s].rooms
  /\ socks' = [socks EXCEPT ![s].rooms = @ \ {c}]
  /\ UNCHANGED <<friendships, dirVars, msgs, nextMsg, reqs, nreq, lastResp,
                 onlineUsers, userDoc, emitted, now>>

\* The disconnect listener without onlineUsers.delete(userId).
DisconnectHandler_KeepsEntry(s, on, sk) ==
  IF sk[s].registered
  THEN [online |-> on,
        socks |-> [sk EXCEPT ![s].discpc = "update", ![s].seenAt = now]]
  ELSE [online |-> on, socks |-> sk]

\* The connection is lost.  The socket leaves its rooms; the disconnect
\* listener, if the connection handler has registered it by now, runs to its
\* await.
DisconnectHandler(s, on, sk) ==
  IF sk[s].registered
  THEN [online |-> [on EXCEPT ![sk[s].user] = NoSock],
        socks |-> [sk EXCEPT ![s].discpc = "update", ![s].seenAt = now]]
  ELSE [online |-> on, socks |-> sk]

Close(s) ==
  /\ s \in OpenSocks
  /\ LET res == DisconnectHandler(s, onlineUsers,
                                  [socks EXCEPT ![s].open = FALSE, ![s].rooms = {}])
     IN /\ onlineUsers' = res.online
        /\ socks' = res.socks
  /\ UNCHANGED <<friendships, dirVars, msgs, nextMsg, reqs, nreq, lastResp,
                 userDoc, emitted, now>>

\* User.findByIdAndUpdate(userId, {isOnline: false, lastSeen}) returns.
DiscUpdated(s) ==
  /\ s \in DOMAIN socks /\ socks[s].discpc = "update"
  /\ userDoc' = [userDoc EXCEPT ![socks[s].user] =
                   [isOnline |-> FALSE, lastSeen |-> socks[s].seenAt]]
  /\ socks' = [socks EXCEPT ![s].discpc = "done"]
  /\ Emit(Event("user:offline", s, socks[s].user, NoConv, 0, Others(s)))
  /\ UNCHANGED <<friendships, dirVars, msgs, nextMsg, reqs, nreq, lastResp,
                 onlineUsers, now>>

Tick ==
  /\ now < MaxTime
  /\ now' = now + 1
  /\ UNCHANGED <<friendships, dirVars, msgs, nextMsg, reqs, nreq, lastResp, gwVars>>

\* ------------------------- message:send  and  POST /api/messages
\* The document created with an empty readBy.
NewMessage_Unread(c, u, content, r, s) ==
  [conversation |-> c, sender |-> u, content |-> Trim(content), readBy |-> {},
   req |-> r, sock |-> s]

\* req and sock record which handler, on which socket, created the document.
NewMessage(c, u, content, r, s) ==
  [conversation |-> c, sender |-> u, content |-> Trim(content), readBy |-> {u},
   req |-> r, sock |-> s]

Snapshot(u, content) ==
  [content |-> Substring(Trim(content), LAST_MESSAGE_PREFIX), sender |-> u,
   createdAt |-> now]

\* The schema without maxlength.
ValidContent_NoMax(content) == Length(Trim(content)) > 0

\* Schema validation of Message.content: required, trimmed, maxlength 2000.
ValidContent(content) ==
  Length(Trim(content)) > 0 /\ Length(Trim(content)) <= MAX_CONTENT_LEN

SockSendStart(s, c, content) ==
  /\ s \in OpenSocks /\ socks[s].registered
  /\ CanStart
  /\ Begin([kind |-> "sockSend", user |-> socks[s].user, sock |-> s, conv |-> c,
            content |-> content, msg |-> 0, snap |-> NoMsg, pc |-> "find"])
  /\ UNCHANGED <<friendships, dirVars, msgs, nextMsg, gwVars, now>>

RestSendStart(u, c, content) ==
  /\ CanStart
  /\ IF c = NoConv \/ Length(content) = 0 \/ Length(Trim(content)) = 0
     THEN Reject("restSend", u, 400)
     ELSE Begin([kind |-> "restSend", user |-> u, sock |-> NoSock, conv |-> c,
                 content |-> content, msg |-> 0, snap |-> NoMsg, pc |-> "find"])
  /\ UNCHANGED <<friendships, dirVars, msgs, nextMsg, gwVars, now>>

\* How a send handler ends: the socket handler emits an error to its own
\* socket or broadcasts to the room; the REST handler answers.
SendFail(r, status) ==
  IF reqs[r].kind = "sockSend"
  THEN /\ reqs' = Drop(reqs, r)
       /\ Emit(Event("error", reqs[r].sock, reqs[r].user, reqs[r].conv, status,
                     Self(reqs[r].sock)))
       /\ UNCHANGED <<nreq, lastResp>>
  ELSE Respond(r, status, NoConv) /\ UNCHANGED emitted

\* Conversation.findOne({_id, participants: userId}) returns.
SendFind(r) ==
  /\ r \in Sending /\ reqs[r].pc = "find"
  /\ IF ~FindForParticipant(reqs[r].conv, reqs[r].user)
     THEN SendFail(r, 404)
     ELSE Advance(r, [reqs[r] EXCEPT !.pc = "create"]) /\ UNCHANGED emitted
  /\ UNCHANGED <<friendships, dirVars, msgs, nextMsg, socks, onlineUsers, userDoc, now>>

\* Message.create returns; the lastMessage snapshot is assigned.
SendCreate(r) ==
  /\ r \in Sending /\ reqs[r].pc = "create"
  /\ nextMsg <= MaxMsg
  /\ LET q == reqs[r]
     IN IF ~ValidContent(q.content)
        THEN SendFail(r, 500) /\ UNCHANGED <<msgs, nextMsg>>
        ELSE /\ msgs' = Put(msgs, nextMsg, NewMessage(q.conv, q.user, q.content, r, q.sock))
             /\ nextMsg' = nextMsg + 1
             /\ Advance(r, [q EXCEPT !.msg = nextMsg,
                                     !.snap = Snapshot(q.user, q.content),
                                     !.pc = "save"])
             /\ UNCHANGED emitted
  /\ UNCHANGED <<friendships, dirVars, socks, onlineUsers, userDoc, now>>

\* A save that does not write the assigned snapshot.
SendSave_Skips(r) ==
  /\ r \in Sending /\ reqs[r].pc = "save"
  /\ LET q == reqs[r]
     IN IF ~Exists(q.conv)
        THEN SendFail(r, 500) /\ UNCHANGED convs
        ELSE /\ convs' = convs
             /\ Advance(r, [q EXCEPT !.pc = "populate"])
             /\ UNCHANGED emitted
  /\ UNCHANGED <<friendships, nextConv, msgs, nextMsg, socks, onlineUsers, userDoc, now>>

\* conversation.save() returns.
SendSave(r) ==
  /\ r \in Sending /\ reqs[r].pc = "save"
  /\ LET q == reqs[r]
     IN IF ~Exists(q.conv)
        THEN SendFail(r, 500) /\ UNCHANGED convs
        ELSE /\ convs' = [convs EXCEPT ![q.conv].lastMessage = q.snap]
             /\ Advance(r, [q EXCEPT !.pc = "populate"])
             /\ UNCHANGED emitted
  /\ UNCHANGED <<friendships, nextConv, msgs, nextMsg, socks, onlineUsers, userDoc, now>>

\* Message.findById(message._id).populate("sender") returns.
SendPopulate(r) ==
  /\ r \in Sending /\ reqs[r].pc = "populate"
  /\ LET q == reqs[r]
         m == IF q.msg \in DOMAIN msgs THEN q.msg ELSE 0
     IN IF q.kind = "sockSend"
        THEN /\ reqs' = Drop(reqs, r)
             /\ Emit(Event("message:receive", q.sock, q.user, q.conv, m, InRoom(q.conv)))
             /\ UNCHANGED <<nreq, lastResp>>
        ELSE Respond(r, 201, m) /\ UNCHANGED emitted
  /\ UNCHANGED <<friendships, dirVars, msgs, nextMsg, socks, onlineUsers, userDoc, now>>

\* An awaited store call of the send handler rejects: the catch block reports
\* the failure, and what the earlier steps wrote stays written.
SendThrow(r) ==
  /\ r \in Sending
  /\ SendFail(r, 500)
  /\ UNCHANGED <<friendships, dirVars, msgs, nextMsg, socks, onlineUsers, userDoc, now>>

\* The awaited Message.updateMany of messages:read rejects: the catch block
\* logs it.
SockReadThrow(r) ==
  /\ r \in InFlight /\ reqs[r].kind = "sockRead"
  /\ reqs' = Drop(reqs, r)
  /\ UNCHANGED <<friendships, dirVars, msgs, nextMsg, nreq, lastResp, gwVars, now>>

\* An awaited store call of the connection handler rejects.  The handler has
\* no try block: its promise rejects with nothing to catch it, and the
\* statements after the await, the socket.on registrations among them, never
\* run.
ConnThrow(s) ==
  /\ s \in DOMAIN socks /\ socks[s].connpc \in {"update", "find"}
  /\ socks' = [socks EXCEPT ![s].connpc = "crashed"]
  /\ UNCHANGED <<friendships, dirVars, msgs, nextMsg, reqs, nreq, lastResp,
                 onlineUsers, userDoc, emitted, now>>

\* The awaited User.findByIdAndUpdate of the disconnect listener rejects; it
\* has no try block either, and user:offline is never broadcast.
DiscThrow(s) ==
  /\ s \in DOMAIN socks /\ socks[s].discpc = "update"
  /\ socks' = [socks EXCEPT ![s].discpc = "crashed"]
  /\ UNCHANGED <<friendships, dirVars, msgs, nextMsg, reqs, nreq, lastResp,
                 onlineUsers, userDoc, emitted, now>>

\* ------------------------------ messages:read  and  PUT /api/messages/read
\* The mark-as-read update taking the user out of a readBy that holds it.
MarkRead_Pull(ms, u, c) ==
  [m \in DOMAIN ms |->
     IF ms[m].conversation = c
     THEN [ms[m] EXCEPT !.readBy = IF u \in @ THEN @ \ {u} ELSE @ \cup {u}]
     ELSE ms[m]]

\* The mark-as-read update with $set in place of $addToSet.
MarkRead_Set(ms, u, c) ==
  [m \in DOMAIN ms |->
     IF ms[m].conversation = c /\ u \notin ms[m].readBy
     THEN [ms[m] EXCEPT !.readBy = {u}]
     ELSE ms[m]]

\* Message.updateMany({conversation, readBy: {$ne: userId}},
\*                    {$addToSet: {readBy: userId}})
MarkRead(ms, u, c) ==
  [m \in DOMAIN ms |->
     IF ms[m].conversation = c /\ u \notin ms[m].readBy
     THEN [ms[m] EXCEPT !.readBy = @ \cup {u}]
     ELSE ms[m]]

\* socket.on("messages:read"): the handler runs to its await.
SockReadStart(s, c) ==
  /\ s \in OpenSocks /\ socks[s].registered
  /\ CanStart
  /\ Begin([kind |-> "sockRead", user |-> socks[s].user, sock |-> s, conv |-> c,
            pc |-> "update"])
  /\ UNCHANGED <<friendships, dirVars, msgs, nextMsg, gwVars, now>>

\* Message.updateMany returns; messages:read:update goes to the room.
SockReadUpdate(r) ==
  /\ r \in InFlight /\ reqs[r].kind = "sockRead"
  /\ LET q == reqs[r]
     IN /\ msgs' = MarkRead(msgs, q.user, q.conv)
        /\ Emit(Event("messages:read:update", q.sock, q.user, q.conv, 0, InRoom(q.conv)))
  /\ reqs' = Drop(reqs, r)
  /\ UNCHANGED <<friendships, dirVars, nextMsg, nreq, lastResp, socks, onlineUsers,
                 userDoc, now>>

\* The request arrives and Conversation.findOne({_id, participants: userId})
\* returns.
RestReadStart(u, c) ==
  /\ CanStart
  /\ IF ~FindForParticipant(c, u) THEN Reject("restRead", u, 404)
     ELSE Begin([kind |-> "restRead", user |-> u, sock |-> NoSock, conv |-> c,
                 pc |-> "update"])
  /\ UNCHANGED <<friendships, dirVars, msgs, nextMsg, gwVars, now>>

\* Message.updateMany returns.
RestReadUpdate(r) ==
  /\ r \in InFlight /\ reqs[r].kind = "restRead"
  /\ msgs' = MarkRead(msgs, reqs[r].user, reqs[r].conv)
  /\ Respond(r, 200, NoConv)
  /\ UNCHANGED <<friendships, dirVars, nextMsg, gwVars, now>>

\* -------------------------------------------- GET /api/conversations/:id
\* The request arrives and Conversation.findOne({_id, participants:
\* userId}).populate(...) returns.
GetConvStart(u, c) ==
  /\ CanStart
  /\ IF ~FindForParticipant(c, u) THEN Reject("getConv", u, 404)
     ELSE Begin([kind |-> "getConv", user |-> u, sock |-> NoSock, conv |-> c,
                 pc |-> "messages"])
  /\ UNCHANGED <<friendships, dirVars, msgs, nextMsg, gwVars, now>>

\* Message.find({conversation}) returns.
GetConvMessages(r) ==
  /\ r \in InFlight /\ reqs[r].kind = "getConv" /\ reqs[r].pc = "messages"
  /\ Advance(r, [reqs[r] EXCEPT !.pc = "count"])
  /\ UNCHANGED <<friendships, dirVars, msgs, nextMsg, gwVars, now>>

\* Message.countDocuments({conversation}) returns.
GetConvCount(r) ==
  /\ r \in InFlight /\ reqs[r].kind = "getConv" /\ reqs[r].pc = "count"
  /\ Respond(r, 200, reqs[r].conv)
  /\ UNCHANGED <<friendships, dirVars, msgs, nextMsg, gwVars, now>>

\* ------------------------------------- GET /api/messages/:conversationId
\* The request arrives and Conversation.findOne({_id, participants: userId})
\* returns.
ListStart(u, c) ==
  /\ CanStart
  /\ IF ~FindForParticipant(c, u) THEN Reject("list", u, 404)
     ELSE Begin([kind |-> "list", user |-> u, sock |-> NoSock, conv |-> c,
                 pc |-> "messages"])
  /\ UNCHANGED <<friendships, dirVars, msgs, nextMsg, gwVars, now>>

\* Message.find({conversation}) returns.
ListMessages(r) ==
  /\ r \in InFlight /\ reqs[r].kind = "list" /\ reqs[r].pc = "messages"
  /\ Advance(r, [reqs[r] EXCEPT !.pc = "count"])
  /\ UNCHANGED <<friendships, dirVars, msgs, nextMsg, gwVars, now>>

\* Message.countDocuments({conversation}) returns.
ListCount(r) ==
  /\ r \in InFlight /\ reqs[r].kind = "list" /\ reqs[r].pc = "count"
  /\ Respond(r, 200, reqs[r].conv)
  /\ UNCHANGED <<friendships, dirVars, msgs, nextMsg, gwVars, now>>

\* ------------------------------------------------------------ behaviours
NoResp == [kind |-> "none", user |-> NoUser, status |-> 0, body |-> 0]

\* A and B are friends, A and C are friends, B and C are not.
InitFriendships ==
  {[requester |-> "A", recipient |-> "B", status |-> "accepted"],
   [requester |-> "C", recipient |-> "A", status |-> "accepted"],
   [requester |-> "B", recipient |-> "C", status |-> "pending"]}

Init ==
  /\ friendships = InitFriendships
  /\ convs = <<>>
  /\ nextConv = 1
  /\ msgs = <<>>
  /\ nextMsg = 1
  /\ reqs = <<>>
  /\ nreq = 0
  /\ lastResp = NoResp
  /\ socks = <<>>
  /\ onlineUsers = [u \in Users |-> NoSock]
  /\ userDoc = [u \in Users |-> [isOnline |-> FALSE, lastSeen |-> 0]]
  /\ emitted = <<>>
  /\ now = 1

\* The conversation directory: every conversation route, any caller.
NextDir ==
  \/ \E u \in Users, type \in {"personal", "group", "other"}, pids \in IdLists :
       \E name \in (IF type = "group" THEN NameInputs ELSE {Str(0, 0, 0)}) :
         PostConvStart(u, type, pids, name)
  \/ \E r \in InFlight : PostConvFriend(r)
  \/ \E r \in InFlight : PostConvExist(r)
  \/ \E r \in InFlight : PostConvCreate(r)
  \/ \E r \in InFlight : PostConvPopulate(r)
  \/ \E u \in Users, c \in ConvIds, action \in {"add", "remove", "other"}, mids \in IdLists :
       MembersStart(u, c, action, mids)
  \/ \E r \in InFlight : MembersFriend(r)
  \/ \E r \in InFlight : MembersSave(r)
  \/ \E r \in InFlight : MembersPopulate(r)
  \/ \E u \in Users, c \in ConvIds : DeleteStart(u, c)
  \/ \E r \in InFlight : DeleteMessages(r)
  \/ \E r \in InFlight : DeleteConv(r)
  \/ \E r \in InFlight : DeleteSave(r)
  \/ \E u \in Users, c \in ConvIds, name \in {Str(1, 0, 1), Str(1, 3, 1)} : Rename(u, c, name)

SpecDir == Init /\ [][NextDir]_vars

\* Sending: A and the outsider C connect, A creates the group with her
\* friend B, sockets send to it and B and C send to it over REST.
ValidText == Str(1, 2, 1)
GwConvIds == 1..MaxGwConv

CreateGroupAB == nextConv <= MaxGwConv /\ PostConvStart("A", "group", <<"B">>, Str(1, 4, 0))

NextSend ==
  \/ \E u \in {"A", "C"} : Connect(u)
  \/ \E s \in DOMAIN socks : ConnUpdated(s)
  \/ \E s \in DOMAIN socks : ConnFound(s)
  \/ \E s \in DOMAIN socks : Close(s)
  \/ \E s \in DOMAIN socks : DiscUpdated(s)
  \/ \E s \in DOMAIN socks, c \in GwConvIds : JoinRoom(s, c)
  \/ \E s \in DOMAIN socks, c \in GwConvIds : LeaveRoom(s, c)
  \/ \E s \in DOMAIN socks, c \in GwConvIds : SockSendStart(s, c, ValidText)
  \/ \E u \in {"B", "C"}, c \in GwConvIds : RestSendStart(u, c, ValidText)
  \/ \E r \in InFlight : SendFind(r)
  \/ \E r \in InFlight : SendCreate(r)
  \/ \E r \in InFlight : SendSave(r)
  \/ \E r \in InFlight : SendPopulate(r)
  \/ CreateGroupAB
  \/ \E r \in InFlight : PostConvCreate(r)
  \/ \E r \in InFlight : PostConvPopulate(r)

SpecSend == Init /\ [][NextSend]_vars

\* Presence: handshakes with any credential arrive and connections are lost
\* while the clock runs.
NextPresence ==
  \/ \E token \in Tokens : Handshake(token)
  \/ \E s \in DOMAIN socks : ConnUpdated(s)
  \/ \E s \in DOMAIN socks : ConnFound(s)
  \/ \E s \in DOMAIN socks : Close(s)
  \/ \E s \in DOMAIN socks : DiscUpdated(s)
  \/ Tick

SpecPresence == Init /\ [][NextPresence]_vars

\* Chat in a stored group: A is the admin of group 1 with B, and B has sent
\* one message to it.  B and the outsider C connect; sockets and REST callers
\* send, mark as read, fetch and leave.
ContentInputs ==
  {ValidText, Str(1, 0, 1), Str(1, MAX_CONTENT_LEN + 1, 0), Str(1, MAX_CONTENT_LEN, 1)}

InitChat ==
  /\ friendships = InitFriendships
  /\ convs = <<[NewConv("group", {"A", "B"}, Str(0, 4, 0), "A")
                  EXCEPT !.lastMessage = [content |-> Str(0, 2, 0), sender |-> "B",
                                          createdAt |-> 0]]>>
  /\ nextConv = 2
  /\ msgs = <<[conversation |-> 1, sender |-> "B", content |-> Str(0, 2, 0),
               readBy |-> {"B"}, req |-> 0, sock |-> NoSock]>>
  /\ nextMsg = 2
  /\ reqs = <<>>
  /\ nreq = 0
  /\ lastResp = NoResp
  /\ socks = <<>>
  /\ onlineUsers = [u \in Users |-> NoSock]
  /\ userDoc = [u \in Users |-> [isOnline |-> FALSE, lastSeen |-> 0]]
  /\ emitted = <<>>
  /\ now = 1

NextChat ==
  \/ \E u \in {"B", "C"} : Connect(u)
  \/ \E s \in DOMAIN socks : ConnUpdated(s)
  \/ \E s \in DOMAIN socks : ConnFound(s)
  \/ \E s \in DOMAIN socks, content \in ContentInputs : SockSendStart(s, 1, content)
  \/ \E content \in {ValidText, Str(1, 0, 1)} : RestSendStart("A", 1, content)
  \/ \E r \in InFlight : SendFind(r)
  \/ \E r \in InFlight : SendCreate(r)
  \/ \E r \in InFlight : SendSave(r)
  \/ \E r \in InFlight : SendPopulate(r)
  \/ \E s \in DOMAIN socks : SockReadStart(s, 1)
  \/ \E r \in InFlight : SockReadUpdate(r)
  \/ \E u \in {"A", "C"} : RestReadStart(u, 1)
  \/ \E r \in InFlight : RestReadUpdate(r)
  \/ \E u \in Users : GetConvStart(u, 1)
  \/ \E r \in InFlight : GetConvMessages(r)
  \/ \E r \in InFlight : GetConvCount(r)
  \/ \E u \in {"A", "B"} : DeleteStart(u, 1)
  \/ \E r \in InFlight : DeleteMessages(r)
  \/ \E r \in InFlight : DeleteConv(r)
  \/ \E r \in InFlight : DeleteSave(r)

SpecChat == InitChat /\ [][NextChat]_vars

\* The conversation ids a caller may name: the stored group's and one that is
\* never stored.
ProbeIds == {1, MaxConv + 1}

\* Participants and a non-participant address the stored group, which its
\* admin may delete, and an id that does not exist.
NextProbe ==
  \/ Connect("C")
  \/ \E s \in DOMAIN socks : ConnUpdated(s)
  \/ \E s \in DOMAIN socks : ConnFound(s)
  \/ \E s \in DOMAIN socks, c \in ProbeIds : SockSendStart(s, c, ValidText)
  \/ \E u \in {"B", "C"}, c \in ProbeIds : RestSendStart(u, c, ValidText)
  \/ \E r \in InFlight : SendFind(r)
  \/ \E r \in InFlight : SendCreate(r)
  \/ \E r \in InFlight : SendSave(r)
  \/ \E r \in InFlight : SendPopulate(r)
  \/ \E u \in {"B", "C"}, c \in ProbeIds : RestReadStart(u, c)
  \/ \E r \in InFlight : RestReadUpdate(r)
  \/ \E u \in {"B", "C"}, c \in ProbeIds : GetConvStart(u, c)
  \/ \E r \in InFlight : GetConvMessages(r)
  \/ \E r \in InFlight : GetConvCount(r)
  \/ \E u \in {"B", "C"}, c \in ProbeIds : ListStart(u, c)
  \/ \E r \in InFlight : ListMessages(r)
  \/ \E r \in InFlight : ListCount(r)
  \/ \E u \in Users, c \in ProbeIds : DeleteStart(u, c)
  \/ \E r \in InFlight : DeleteMessages(r)
  \/ \E r \in InFlight : DeleteConv(r)
  \/ \E r \in InFlight : DeleteSave(r)

SpecProbe == InitChat /\ [][NextProbe]_vars

\* Connections, reads and disconnections on the stored group while store
\* calls of the gateway's handlers may fail.
NextCrash ==
  \/ \E u \in {"B", "C"} : Connect(u)
  \/ \E s \in DOMAIN socks : ConnUpdated(s)
  \/ \E s \in DOMAIN socks : ConnFound(s)
  \/ \E s \in DOMAIN socks : ConnThrow(s)
  \/ \E s \in DOMAIN socks : Close(s)
  \/ \E s \in DOMAIN socks : DiscUpdated(s)
  \/ \E s \in DOMAIN socks : DiscThrow(s)
  \/ \E s \in DOMAIN socks : SockReadStart(s, 1)
  \/ \E r \in InFlight : SockReadUpdate(r)
  \/ \E r \in InFlight : SockReadThrow(r)

SpecCrash == InitChat /\ [][NextCrash]_vars

\* Sending to the stored group while store calls of the send handlers may
\* fail.
NextFault ==
  \/ Connect("B")
  \/ \E s \in DOMAIN socks : ConnUpdated(s)
  \/ \E s \in DOMAIN socks : ConnFound(s)
  \/ \E s \in DOMAIN socks : SockSendStart(s, 1, ValidText)
  \/ RestSendStart("A", 1, ValidText)
  \/ \E r \in InFlight : SendFind(r)
  \/ \E r \in InFlight : SendCreate(r)
  \/ \E r \in InFlight : SendSave(r)
  \/ \E r \in InFlight : SendPopulate(r)
  \/ \E r \in InFlight : SendThrow(r)

SpecFault == InitChat /\ [][NextFault]_vars

\* Group membership at the size limit: A is the admin of group 1, which holds
\* A and MAX_GROUP_SIZE - 2 more of A's friends; groups are created and their
\* admins add and remove members.
Fillers ==
  {"f01", "f02", "f03", "f04", "f05", "f06", "f07", "f08", "f09",
   "f10", "f11", "f12", "f13", "f14", "f15", "f16", "f17", "f18"}

InitFull ==
  /\ friendships = InitFriendships \cup
       {[requester |-> "A", recipient |-> f, status |-> "accepted"] : f \in Fillers}
  /\ convs = <<NewConv("group", {"A"} \cup Fillers, Str(0, 4, 0), "A")>>
  /\ nextConv = 2
  /\ msgs = <<>>
  /\ nextMsg = 1
  /\ reqs = <<>>
  /\ nreq = 0
  /\ lastResp = NoResp
  /\ socks = <<>>
  /\ onlineUsers = [u \in Users |-> NoSock]
  /\ userDoc = [u \in Users |-> [isOnline |-> FALSE, lastSeen |-> 0]]
  /\ emitted = <<>>
  /\ now = 1

NextMembers ==
  \/ \E u \in Users, pids \in IdLists : PostConvStart(u, "group", pids, Str(1, 4, 0))
  \/ \E r \in InFlight : PostConvFriend(r)
  \/ \E r \in InFlight : PostConvCreate(r)
  \/ \E r \in InFlight : PostConvPopulate(r)
  \/ \E u \in Users, c \in ConvIds, action \in {"add", "remove", "other"}, mids \in IdLists :
       MembersStart(u, c, action, mids)
  \/ \E r \in InFlight : MembersFriend(r)
  \/ \E r \in InFlight : MembersSave(r)
  \/ \E r \in InFlight : MembersPopulate(r)

SpecMembers == InitFull /\ [][NextMembers]_vars

\* The friendship gate: conversations are created and members added while
\* friendships are removed.
NextFriends ==
  \/ \E u \in Users, type \in {"personal", "group"}, pids \in IdLists :
       PostConvStart(u, type, pids, Str(1, 4, 0))
  \/ \E r \in InFlight : PostConvFriend(r)
  \/ \E r \in InFlight : PostConvExist(r)
  \/ \E r \in InFlight : PostConvCreate(r)
  \/ \E r \in InFlight : PostConvPopulate(r)
  \/ \E u \in Users, c \in ConvIds, mids \in IdLists : MembersStart(u, c, "add", mids)
  \/ \E r \in InFlight : MembersFriend(r)
  \/ \E r \in InFlight : MembersSave(r)
  \/ \E r \in InFlight : MembersPopulate(r)
  \/ \E u, v \in Users : RemoveFriend(u, v)

SpecFriends == Init /\ [][NextFriends]_vars

\* Friend requests: B once declined a request of C; otherwise no two users
\* have a Friendship document.  Requests are sent and accepted.
InitStrangers ==
  /\ friendships = {[id |-> 1, requester |-> "C", recipient |-> "B", status |-> "declined"]}
  /\ convs = <<>>
  /\ nextConv = 1
  /\ msgs = <<>>
  /\ nextMsg = 1
  /\ reqs = <<>>
  /\ nreq = 0
  /\ lastResp = NoResp
  /\ socks = <<>>
  /\ onlineUsers = [u \in Users |-> NoSock]
  /\ userDoc = [u \in Users |-> [isOnline |-> FALSE, lastSeen |-> 0]]
  /\ emitted = <<>>
  /\ now = 1

NextRequests ==
  \/ \E u, v \in Users : FriendReqStart(u, v)
  \/ \E r \in InFlight : FriendReqFind(r)
  \/ \E r \in InFlight : FriendReqCreate(r)
  \/ \E r \in InFlight : FriendReqSave(r)
  \/ \E u \in Users, fid \in 1..(MaxReq + 1) : AcceptStart(u, fid)
  \/ \E r \in InFlight : AcceptSave(r)
  \/ \E r \in InFlight : AcceptPopulate(r)

SpecRequests == InitStrangers /\ [][NextRequests]_vars

\* Group names: groups are created and renamed with blank, short, longest
\* allowed and too long names.
LongNameInputs ==
  NameInputs \cup {Str(1, MAX_NAME_LEN, 1), Str(0, MAX_NAME_LEN + 1, 0)}

NextNames ==
  \/ \E u \in Users, pids \in IdLists, name \in LongNameInputs :
       PostConvStart(u, "group", pids, name)
  \/ \E r \in InFlight : PostConvFriend(r)
  \/ \E r \in InFlight : PostConvCreate(r)
  \/ \E r \in InFlight : PostConvPopulate(r)
  \/ \E u \in Users, c \in ConvIds, name \in LongNameInputs : Rename(u, c, name)

SpecNames == Init /\ [][NextNames]_vars

\* ================================================================ claims
Groups == {c \in DOMAIN convs : convs[c].type = "group"}
Personals == {c \in DOMAIN convs : convs[c].type = "personal"}

\* C2: every stored group has between 2 and MAX_GROUP_SIZE participants and
\* every stored personal conversation has exactly 2, in every reachable state.
C2_ParticipantCount ==
  /\ \A c \in Groups : /\ Cardinality(convs[c].participants) >= 2
                       /\ Cardinality(convs[c].participants) <= MAX_GROUP_SIZE
  /\ \A c \in Personals : Cardinality(convs[c].participants) = 2

\* C3: every stored group has an admin, who is the user whose request created
\* the group, who stays the admin for as long as the group is stored, and who
\* is one of its participants in every reachable state.
C3_AdminIsParticipant ==
  \A c \in Groups : convs[c].admin \in Users /\ convs[c].admin \in convs[c].participants

C3_AdminStep ==
  /\ \A c \in (DOMAIN convs) \cap (DOMAIN convs') : convs'[c].admin = convs[c].admin
  /\ \A c \in (DOMAIN convs') \ (DOMAIN convs) :
       convs'[c].type = "group" =>
         \E r \in InFlight : /\ reqs[r].kind = "postConv" /\ reqs[r].pc = "create"
                             /\ reqs'[r].conv = c
                             /\ convs'[c].admin = reqs[r].user

C3_OneAdmin == [](C3_AdminIsParticipant) /\ [][C3_AdminStep]_vars

\* A group whose participants have been saved twice by members requests.
C3_Witness ==
  \E c \in Groups : convs[c].v >= 2 /\ convs[c].admin \in convs[c].participants

\* C4: at most one personal conversation is stored per unordered pair of users.
C4_UniquePersonal ==
  \A c1, c2 \in Personals : convs[c1].participants = convs[c2].participants => c1 = c2

\* C5: a personal creation request between friends that overlaps no other
\* request, starts when a personal conversation of its pair is stored and ends
\* while that conversation is still stored, is answered with that
\* conversation and stores nothing.
C5_Answered(r) ==
  /\ r \in InFlight /\ r \notin DOMAIN reqs'
  /\ reqs[r].kind = "postConv" /\ reqs[r].type = "personal"
  /\ reqs[r].quiet /\ nreq = r

C5_SameConversation ==
  [][\A r \in InFlight :
       C5_Answered(r) =>
         \A c \in reqs[r].seen \cap DOMAIN convs :
           lastResp'.status = 200 /\ lastResp'.body = c /\ convs' = convs]_vars

Received(i, m) == emitted[i].type = "message:receive" /\ emitted[i].msg = m

\* C1: a send, by socket or by REST, whose membership lookup finds no
\* conversation with that id having the sender among its participants ends
\* there: not found is reported to the caller alone, no Message is created, no
\* conversation changes and nothing is broadcast.
C1_LookupFails(r) ==
  /\ r \in Sending /\ reqs[r].pc = "find"
  /\ \/ reqs[r].conv \notin DOMAIN convs
     \/ reqs[r].user \notin convs[reqs[r].conv].participants
  /\ r \notin DOMAIN reqs' \/ reqs'[r] # reqs[r]

C1_Reported(r) ==
  IF reqs[r].kind = "sockSend"
  THEN /\ lastResp' = lastResp
       /\ Len(emitted') = Len(emitted) + 1
       /\ SubSeq(emitted', 1, Len(emitted)) = emitted
       /\ LET e == emitted'[Len(emitted')]
          IN /\ e.type = "error" /\ e.msg = 404
             /\ e.sock = reqs[r].sock /\ e.to \subseteq {reqs[r].sock}
  ELSE /\ emitted' = emitted
       /\ lastResp' = [kind |-> "restSend", user |-> reqs[r].user, status |-> 404,
                       body |-> NoConv]

C1_NonParticipantSend ==
  [][\A r \in InFlight :
       C1_LookupFails(r) =>
         /\ r \notin DOMAIN reqs'
         /\ msgs' = msgs /\ nextMsg' = nextMsg
         /\ convs' = convs
         /\ C1_Reported(r)]_vars

\* After a message of a stored conversation was broadcast to its room, an
\* outsider's socket sent to it and was told not found, itself alone; the
\* conversation still holds only the earlier message and its snapshot.
C1_Witness ==
  \E i, j \in DOMAIN emitted :
    LET e == emitted[i]
        b == emitted[j]
    IN /\ j < i
       /\ b.type = "message:receive" /\ b.conv = e.conv /\ b.to # {}
       /\ e.type = "error" /\ e.msg = 404 /\ e.to = {e.sock}
       /\ e.conv \in DOMAIN convs
       /\ e.user \notin convs[e.conv].participants
       /\ InRoom(e.conv) # {}
       /\ DOMAIN msgs = {b.msg}
       /\ convs[e.conv].lastMessage.sender = b.user
       /\ \A k \in DOMAIN emitted : Received(k, b.msg) => k = j

\* C6: a user with one connection is in onlineUsers and stored online once the
\* connection handler has finished, until the disconnect listener runs; once
\* the disconnect listener has finished the user is out of onlineUsers and
\* stored offline with lastSeen not before the time of the connection.
OnlyConnection(s) ==
  \A t \in DOMAIN socks : socks[t].user = socks[s].user => t = s

C6_PresenceConsistency ==
  \A s \in DOMAIN socks :
    OnlyConnection(s) =>
      LET u == socks[s].user
      IN /\ (socks[s].connpc = "done" /\ socks[s].discpc = "none") =>
              (onlineUsers[u] = s /\ userDoc[u].isOnline)
         /\ socks[s].discpc = "done" =>
              /\ onlineUsers[u] = NoSock
              /\ ~userDoc[u].isOnline
              /\ userDoc[u].lastSeen >= socks[s].connectedAt

\* A user connected after the clock moved, then disconnected, and both
\* handlers have finished.
C6_Witness ==
  \E s \in DOMAIN socks :
    /\ OnlyConnection(s)
    /\ socks[s].connpc = "done" /\ socks[s].discpc = "done"
    /\ socks[s].connectedAt > 1
    /\ userDoc[socks[s].user].lastSeen >= socks[s].connectedAt

\* C7: a user with a live connection has an entry in onlineUsers, also after
\* another connection of the same user has disconnected.  (The claim's other
\* half, an entry only while a connection is live, fails with C8.)
C7_LiveHasEntry ==
  \A s \in OpenSocks : onlineUsers[socks[s].user] # NoSock

\* C8: a lost connection with no handler of it left to run has had user:offline
\* broadcast for it, and its user was stored offline with lastSeen set then.
Quiescent(s) ==
  /\ ~socks[s].open
  /\ socks[s].connpc = "done"
  /\ socks[s].discpc # "update"

C8_LossIsHandled ==
  \A s \in DOMAIN socks :
    Quiescent(s) =>
      /\ socks[s].discpc = "done"
      /\ \E i \in DOMAIN emitted :
           emitted[i].type = "user:offline" /\ emitted[i].sock = s

\* C9: a Message created by a socket's message:send whose handler has finished,
\* the socket still being connected, was delivered to that socket as
\* message:receive.
C9_SenderReceives ==
  \A m \in DOMAIN msgs :
    (/\ msgs[m].sock # NoSock
     /\ msgs[m].req \notin InFlight
     /\ socks[msgs[m].sock].open) =>
      \E i \in DOMAIN emitted :
        /\ emitted[i].type = "message:receive" /\ emitted[i].msg = m
        /\ msgs[m].sock \in emitted[i].to

\* C10: of two socket sends to one conversation, the one whose handler started
\* first has its Message created first and broadcast first.
C10_SendOrder ==
  \A m1, m2 \in DOMAIN msgs :
    (/\ msgs[m1].conversation = msgs[m2].conversation
     /\ msgs[m1].sock # NoSock /\ msgs[m2].sock # NoSock
     /\ msgs[m1].req < msgs[m2].req) =>
      /\ m1 < m2
      /\ \A i, j \in DOMAIN emitted : (Received(i, m1) /\ Received(j, m2)) => i < j

\* C11: a message:send that ends by emitting error to its socket, a store
\* failure at any of its steps included, leaves no Message created by it in
\* the store and has not written the conversation's lastMessage.  (A handler
\* is at "populate" exactly when its conversation.save() has written.)
C11_EndsInError(r) ==
  /\ r \in InFlight /\ reqs[r].kind = "sockSend"
  /\ r \notin DOMAIN reqs'
  /\ Len(emitted') = Len(emitted) + 1
  /\ emitted'[Len(emitted')].type = "error"

C11_FailedSendWritesNothing ==
  [][\A r \in InFlight :
       C11_EndsInError(r) =>
         /\ \A m \in DOMAIN msgs' : msgs'[m].req # r
         /\ reqs[r].pc # "populate"]_vars

\* C12: when a group's admin issues DELETE and no other request is in flight
\* from then until it completes, the conversation is gone on completion, no
\* Message of it is left, and every fetch or send against it whose lookup runs
\* afterwards is answered not found.
C12_AdminLeaves(r) ==
  /\ r \in InFlight /\ reqs[r].kind = "delete" /\ r \notin DOMAIN reqs'
  /\ reqs[r].quiet /\ nreq = r /\ InFlight = {r}
  /\ reqs[r].conv \in Groups /\ convs[reqs[r].conv].admin = reqs[r].user

C12_Gone(c) == c < nextConv /\ c \notin DOMAIN convs

C12_NotFound(r) ==
  /\ r \notin DOMAIN reqs'
  /\ IF reqs[r].kind = "sockSend"
     THEN /\ Len(emitted') = Len(emitted) + 1
          /\ emitted'[Len(emitted')].type = "error"
          /\ emitted'[Len(emitted')].msg = 404
     ELSE lastResp'.status = 404

C12_AdminLeaveDeletes ==
  [][/\ \A r \in InFlight :
          C12_AdminLeaves(r) =>
            /\ reqs[r].conv \notin DOMAIN convs'
            /\ \A m \in DOMAIN msgs' : msgs'[m].conversation # reqs[r].conv
            /\ lastResp'.status = 200
     /\ \A r \in Sending :
          (/\ reqs[r].pc = "find" /\ C12_Gone(reqs[r].conv)
           /\ r \notin DOMAIN reqs' \/ reqs'[r] # reqs[r]) =>
            C12_NotFound(r)
     /\ (C12_Gone(1) /\ nreq' = nreq + 1) =>
          /\ \A r \in DOMAIN reqs' \ InFlight : reqs'[r].kind # "getConv"
          /\ (reqs' = reqs /\ lastResp'.kind = "getConv") => lastResp'.status = 404]_vars

\* The admin A left group 1 as the first request; afterwards B fetched it and
\* B's socket sent to it, and both were told not found.
C12_Witness ==
  /\ 1 \notin DOMAIN convs /\ DOMAIN msgs = {}
  /\ nreq = 3 /\ InFlight = {}
  /\ lastResp = [kind |-> "getConv", user |-> "B", status |-> 404, body |-> NoConv]
  /\ \E i \in DOMAIN emitted :
       /\ emitted[i].type = "error" /\ emitted[i].msg = 404
       /\ emitted[i].user = "B" /\ emitted[i].conv = 1

\* C13: every Message created by a send, by socket or by REST, has readBy
\* equal to exactly {sender} at the moment it is created.
C13_ReadByIsSender ==
  [][\A m \in DOMAIN msgs' \ DOMAIN msgs :
       msgs'[m].readBy = {msgs'[m].sender}]_vars

\* A send has just created its Message, read by its sender alone, while the
\* older message of the conversation has other readers.
C13_Witness ==
  \E m \in DOMAIN msgs :
    /\ msgs[m].req \in InFlight /\ reqs[msgs[m].req].pc = "save"
    /\ msgs[m].readBy = {msgs[m].sender}
    /\ \E n \in DOMAIN msgs : msgs[n].conversation = msgs[m].conversation
                              /\ msgs[n].readBy \ {msgs[m].sender, msgs[n].sender} # {}

\* C14: marking conversation c as read for user u, by socket or by REST, right
\* after it has been marked as read for u leaves every readBy as the first
\* application left it.
C14_ReadApplied(r) ==
  /\ r \in InFlight /\ reqs[r].kind \in {"sockRead", "restRead"}
  /\ r \notin DOMAIN reqs'

C14_MarkReadIdempotent ==
  [][\A r \in InFlight :
       C14_ReadApplied(r) =>
         MarkRead(msgs', reqs[r].user, reqs[r].conv) = msgs']_vars

\* One socket marked the conversation as read twice in a row, and its user is
\* a reader of the stored message.
C14_Witness ==
  \E i \in DOMAIN emitted :
    /\ i + 1 \in DOMAIN emitted
    /\ emitted[i].type = "messages:read:update"
    /\ emitted[i + 1] = [emitted[i] EXCEPT !.to = emitted[i + 1].to]
    /\ \E m \in DOMAIN msgs :
         /\ msgs[m].conversation = emitted[i].conv
         /\ msgs[m].sender # emitted[i].user
         /\ emitted[i].user \in msgs[m].readBy

\* C16: a message:send whose content, trimmed, is empty or longer than
\* MAX_CONTENT_LEN characters is rejected: it never creates a Message, never
\* writes lastMessage, and ends by emitting error to its own socket alone, with
\* nothing broadcast.
C16_Invalid(content) ==
  Length(Trim(content)) = 0 \/ Length(Trim(content)) > MAX_CONTENT_LEN

C16_Rejected(r) ==
  /\ msgs' = msgs /\ nextMsg' = nextMsg /\ convs' = convs
  /\ Len(emitted') = Len(emitted) + 1
  /\ SubSeq(emitted', 1, Len(emitted)) = emitted
  /\ LET e == emitted'[Len(emitted')]
     IN e.type = "error" /\ e.sock = reqs[r].sock /\ e.to \subseteq {reqs[r].sock}

C16_InvalidContentRejected ==
  [][\A r \in InFlight :
       (reqs[r].kind = "sockSend" /\ C16_Invalid(reqs[r].content)) =>
         /\ \A m \in DOMAIN msgs' : msgs'[m].req # r
         /\ reqs[r].pc \in {"find", "create"}
         /\ (r \notin DOMAIN reqs' \/ reqs'[r] # reqs[r]) =>
              \/ reqs[r].pc = "find" /\ r \in DOMAIN reqs' /\ reqs'[r].pc = "create"
                                     /\ emitted' = emitted
              \/ r \notin DOMAIN reqs' /\ C16_Rejected(r)]_vars

\* The socket of participant B was told that its send failed, itself alone;
\* the group is stored with the message and the lastMessage it started with,
\* and no Message was ever created.
C16_Witness ==
  \E i \in DOMAIN emitted :
    LET e == emitted[i]
    IN /\ e.type = "error" /\ e.msg = 500 /\ e.to = {e.sock}
       /\ e.conv \in DOMAIN convs /\ e.user \in convs[e.conv].participants
       /\ convs[e.conv].lastMessage.createdAt = 0
       /\ nextMsg = 2 /\ DOMAIN msgs = {1}
       /\ \A j \in DOMAIN emitted : emitted[j].type # "message:receive"

\* C18: while a Message is stored, its conversation, sender and content never
\* change and its readBy only grows.
C18_MessageStep ==
  \A m \in (DOMAIN msgs) \cap (DOMAIN msgs') :
    /\ msgs'[m].conversation = msgs[m].conversation
    /\ msgs'[m].sender = msgs[m].sender
    /\ msgs'[m].content = msgs[m].content
    /\ msgs[m].readBy \subseteq msgs'[m].readBy

C18_MessagesImmutable == [][C18_MessageStep /\ nextMsg' >= nextMsg]_vars

\* B's message has been marked as read by A and by C while a later message of
\* the same conversation is stored.
C18_Witness ==
  \E m, n \in DOMAIN msgs :
    /\ m < n /\ msgs[m].conversation = msgs[n].conversation
    /\ msgs[m].sender = "B" /\ msgs[m].readBy = {"A", "B", "C"}
    /\ msgs[m].content = Str(0, 2, 0)

\* C17: a handshake with a missing or invalid credential changes nothing: no
\* onlineUsers entry is added or overwritten, no User document is written, no
\* socket joins a room and nothing is broadcast.
C17_BadTokens == {t \in Tokens : t.kind # "valid"}

C17_RejectedUntouched ==
  [][\A t \in C17_BadTokens :
       Handshake(t) =>
         /\ onlineUsers' = onlineUsers
         /\ userDoc' = userDoc
         /\ emitted' = emitted
         /\ \A s \in DOMAIN socks : socks'[s] = socks[s]
         /\ \A s \in DOMAIN socks' : socks'[s].rooms # {} => s \in DOMAIN socks
         /\ OpenSocks' = OpenSocks]_vars

\* A handshake was rejected while an earlier connection is live: its user is
\* still in onlineUsers under that connection and stored online.
C17_Witness ==
  \E s, t \in DOMAIN socks :
    /\ t < s /\ socks[s].connpc = "rejected"
    /\ socks[t].open /\ socks[t].connpc = "done"
    /\ onlineUsers[socks[t].user] = t /\ userDoc[socks[t].user].isOnline
    /\ \A i \in DOMAIN emitted : emitted[i].sock = t

\* C15: while groups are created and their members added and removed, every
\* stored group has between 2 and MAX_GROUP_SIZE participants, and a members
\* request that is rejected leaves every stored participant set as it was.
C15_WithinLimits ==
  \A c \in Groups : /\ Cardinality(convs[c].participants) >= 2
                    /\ Cardinality(convs[c].participants) <= MAX_GROUP_SIZE

C15_MembersRejected ==
  /\ lastResp'.kind = "members" /\ lastResp'.status # 200
  /\ \/ nreq' = nreq + 1 /\ reqs' = reqs
     \/ \E r \in InFlight : reqs[r].kind = "members" /\ r \notin DOMAIN reqs'

C15_GroupSizeKept ==
  [](C15_WithinLimits) /\ [][C15_MembersRejected => convs' = convs]_vars

\* Group 1 was filled to MAX_GROUP_SIZE by one add, and the next members
\* request of its admin was rejected.
C15_Witness ==
  /\ 1 \in Groups /\ Cardinality(convs[1].participants) = MAX_GROUP_SIZE
  /\ convs[1].v = 1 /\ nreq = 2
  /\ lastResp = [kind |-> "members", user |-> "A", status |-> 400, body |-> NoConv]

\* C19: a user other than the requester is put into a conversation, by a
\* personal creation, a group creation or an add, only if the request found an
\* accepted friendship between that user and the requester when it checked;
\* and a request naming a user for whom it found none creates no conversation
\* and adds no participant.
C19_Friends(u, x) ==
  \E f \in friendships :
    f.status = "accepted" /\ {f.requester, f.recipient} = {u, x}

C19_Gated == {r \in DOMAIN reqs : reqs[r].kind \in {"postConv", "members"}}

\* Every user a request records as checked had the friendship at that step.
C19_CheckedThen ==
  \A r \in C19_Gated' :
    \A x \in reqs'[r].okd \ (IF r \in DOMAIN reqs THEN reqs[r].okd ELSE {}) :
      C19_Friends(reqs'[r].user, x)

\* Every write of participants is by a request that checked all it names.
C19_WriteChecked ==
  /\ \A c \in (DOMAIN convs') \ (DOMAIN convs) :
       \E r \in C19_Gated :
         /\ reqs[r].kind = "postConv" /\ reqs[r].pc = "create" /\ reqs'[r].conv = c
         /\ convs'[c].participants \ {reqs[r].user} \subseteq reqs[r].okd
         /\ Range(reqs[r].pids) \ {reqs[r].user} \subseteq reqs[r].okd
  /\ \A c \in (DOMAIN convs') \cap (DOMAIN convs) :
       ~(convs'[c].participants \subseteq convs[c].participants) =>
         \E r \in C19_Gated :
           /\ reqs[r].kind = "members" /\ reqs[r].pc = "save" /\ reqs[r].conv = c
           /\ reqs'[r].pc = "populate"
           /\ convs'[c].participants \ convs[c].participants \subseteq reqs[r].okd
           /\ Range(reqs[r].mids) \ {reqs[r].user} \subseteq reqs[r].okd

C19_FriendshipGate == [][C19_CheckedThen /\ C19_WriteChecked]_vars

\* A member was added to a group, and the friendship the add was checked
\* against has since been removed.
C19_Witness ==
  \E c \in Groups :
    /\ convs[c].v >= 1
    /\ lastResp.kind = "unfriend" /\ lastResp.status = 200
    /\ \E x \in convs[c].participants :
         x # convs[c].admin /\ ~C19_Friends(convs[c].admin, x)

\* C20: the participants of a stored group change only by a members request
\* of its admin or by a member who is not the admin leaving, which removes
\* that member alone; a members request is carried out only for the admin;
\* and the participants of a stored personal conversation never change.
C20_ByAdmin(c) ==
  \E r \in InFlight :
    /\ reqs[r].kind = "members" /\ reqs[r].conv = c /\ reqs[r].pc = "save"
    /\ reqs[r].user = convs[c].admin
    /\ r \in DOMAIN reqs' /\ reqs'[r].pc = "populate"

C20_ByLeaver(c) ==
  \E r \in InFlight :
    /\ reqs[r].kind = "delete" /\ reqs[r].conv = c /\ reqs[r].pc = "save"
    /\ reqs[r].user # convs[c].admin
    /\ r \notin DOMAIN reqs'
    /\ convs'[c].participants = convs[c].participants \ {reqs[r].user}

C20_Step ==
  /\ \A c \in (DOMAIN convs) \cap (DOMAIN convs') :
       convs'[c].participants # convs[c].participants =>
         /\ convs[c].type = "group"
         /\ C20_ByAdmin(c) \/ C20_ByLeaver(c)
  /\ \A r \in (DOMAIN reqs') \ (DOMAIN reqs) :
       reqs'[r].kind = "members" =>
         reqs'[r].conv \in Groups /\ convs[reqs'[r].conv].admin = reqs'[r].user

C20_MembershipWriters == [][C20_Step]_vars

\* A group's participants were written twice, the second time by a member
\* who left it.
C20_Witness ==
  \E c \in Groups :
    /\ convs[c].v >= 2
    /\ lastResp.kind = "delete" /\ lastResp.status = 200
    /\ lastResp.user \notin convs[c].participants
    /\ lastResp.user # convs[c].admin

\* C21: at most one Friendship document is stored per unordered pair of
\* users, in every reachable state.
C21_OnePerPair ==
  \A f, g \in friendships :
    {f.requester, f.recipient} = {g.requester, g.recipient} => f = g

\* C22: every stored group's name is non-empty after trimming and at most
\* MAX_NAME_LEN characters long, in every reachable state.
C22_NameValid ==
  \A c \in Groups : /\ Length(Trim(convs[c].name)) > 0
                    /\ Length(convs[c].name) <= MAX_NAME_LEN

\* C23: a store failure in a gateway handler is caught in that handler, and
\* afterwards the connection is open with its event handlers registered: no
\* handler's promise is left rejected, and every connected socket whose
\* connection handler is not still running has its listeners.
C23_FailuresCaught ==
  \A s \in DOMAIN socks :
    /\ socks[s].connpc # "crashed"
    /\ socks[s].discpc # "crashed"
    /\ (socks[s].open /\ socks[s].connpc \notin {"update", "find"}) => socks[s].registered

\* C24: a user who is not a participant of conversation id c observes the
\* same outcome from fetching it, listing its messages, marking it read,
\* leaving it and sending to it whether c is stored or not: no such request
\* passes its lookup, every refusal at the lookup is the one 404 answer with
\* no body, and a send ends at its lookup with that answer or error event
\* and writes nothing.
C24_Outsider(u, c) == c \notin DOMAIN convs \/ u \notin convs[c].participants

C24_Lookups == {"getConv", "list", "restRead", "delete"}

C24_NoneAdmitted ==
  \A r \in DOMAIN reqs' \ DOMAIN reqs :
    reqs'[r].kind \in C24_Lookups => ~C24_Outsider(reqs'[r].user, reqs'[r].conv)

C24_OneRefusal ==
  (nreq' = nreq + 1 /\ reqs' = reqs /\ lastResp'.kind \in C24_Lookups)
    => (lastResp'.status = 404 /\ lastResp'.body = NoConv)

C24_SendRefused ==
  \A r \in Sending :
    (/\ reqs[r].pc = "find"
     /\ C24_Outsider(reqs[r].user, reqs[r].conv)
     /\ (r \notin DOMAIN reqs' \/ reqs'[r] # reqs[r]))
      => /\ r \notin DOMAIN reqs'
         /\ msgs' = msgs /\ convs' = convs
         /\ IF reqs[r].kind = "restSend"
            THEN /\ lastResp' = [kind |-> "restSend", user |-> reqs[r].user,
                                 status |-> 404, body |-> NoConv]
                 /\ emitted' = emitted
            ELSE /\ lastResp' = lastResp
                 /\ emitted' = Append(emitted,
                      Event("error", reqs[r].sock, reqs[r].user, reqs[r].conv, 404,
                            Self(reqs[r].sock)))

C24_ExistenceHidden ==
  [][C24_NoneAdmitted /\ C24_OneRefusal /\ C24_SendRefused]_vars

\* The non-participant C was refused over its socket on the stored group and
\* on an id that is not stored, and then at a lookup of a REST route.
C24_Witness ==
  /\ 1 \in DOMAIN convs /\ "C" \notin convs[1].participants
  /\ \A c \in ProbeIds :
       \E i \in DOMAIN emitted :
         /\ emitted[i].type = "error" /\ emitted[i].user = "C"
         /\ emitted[i].conv = c /\ emitted[i].msg = 404
  /\ lastResp \in {[kind |-> k, user |-> "C", status |-> 404, body |-> NoConv] :
                     k \in C24_Lookups}
  /\ nreq = MaxReq

\* C25: when sends to one conversation by different participants interleave,
\* every Message they created stays stored unchanged, a send that reached its
\* last step has its Message stored, and once the handlers that created the
\* conversation's Messages have finished, lastMessage is the snapshot of one
\* of those Messages.
C25_Sent(c) == {m \in DOMAIN msgs : msgs[m].conversation = c /\ msgs[m].req # 0}

C25_SnapshotOfOne ==
  \A c \in DOMAIN convs :
    (/\ Cardinality({msgs[m].sender : m \in C25_Sent(c)}) >= 2
     /\ \A m \in C25_Sent(c) : msgs[m].req \notin InFlight)
      => \E m \in C25_Sent(c) :
           /\ convs[c].lastMessage # NoMsg
           /\ convs[c].lastMessage.sender = msgs[m].sender
           /\ convs[c].lastMessage.content
                = Substring(msgs[m].content, LAST_MESSAGE_PREFIX)

C25_Stored ==
  \A r \in Sending :
    reqs[r].pc = "populate"
      => /\ reqs[r].msg \in DOMAIN msgs
         /\ msgs[reqs[r].msg].req = r
         /\ msgs[reqs[r].msg].sender = reqs[r].user

C25_Kept == \A m \in DOMAIN msgs : m \in DOMAIN msgs' /\ msgs'[m] = msgs[m]

C25_ConcurrentSends == [](C25_SnapshotOfOne /\ C25_Stored) /\ [][C25_Kept]_vars

\* Two participants' sends interleaved: both Messages are stored, both
\* handlers have finished, and lastMessage is the snapshot of the Message
\* created first, so the two saves landed in the other order.
C25_Witness ==
  /\ 1 \in DOMAIN convs /\ DOMAIN msgs = {1, 2} /\ InFlight = {}
  /\ msgs[1].conversation = 1 /\ msgs[2].conversation = 1
  /\ msgs[1].sender # msgs[2].sender
  /\ {msgs[1].sender, msgs[2].sender} \subseteq convs[1].participants
  /\ convs[1].lastMessage # NoMsg
  /\ convs[1].lastMessage.sender = msgs[1].sender

\* C26: a message:receive event of conversation c reaches only connections
\* whose user is a participant of c when it is broadcast.
C26_Broadcast ==
  Len(emitted') = Len(emitted) + 1 /\ emitted'[Len(emitted')].type = "message:receive"

C26_OnlyParticipantsReceive ==
  [][C26_Broadcast =>
       LET e == emitted'[Len(emitted')]
       IN \A s \in e.to : /\ e.conv \in DOMAIN convs
                          /\ socks[s].user \in convs[e.conv].participants]_vars

\* C27: a user is added to a message's readBy only while a participant of
\* the message's conversation, and a step that broadcasts
\* messages:read:update is the read of a participant.
C27_ReadersAreParticipants ==
  \A m \in DOMAIN msgs \cap DOMAIN msgs' :
    \A u \in msgs'[m].readBy \ msgs[m].readBy :
      /\ msgs[m].conversation \in DOMAIN convs
      /\ u \in convs[msgs[m].conversation].participants

C27_UpdateIsParticipants ==
  (Len(emitted') = Len(emitted) + 1
     /\ emitted'[Len(emitted')].type = "messages:read:update")
    => LET e == emitted'[Len(emitted')]
       IN e.conv \in DOMAIN convs /\ e.user \in convs[e.conv].participants

C27_OnlyParticipantsRead ==
  [][C27_ReadersAreParticipants /\ C27_UpdateIsParticipants]_vars

\* C28: every stored Message references a stored Conversation, in every
\* reachable state.
C28_NoOrphanMessage ==
  \A m \in DOMAIN msgs : msgs[m].conversation \in DOMAIN convs

\* C29: no membership update of a group is lost when requests overlap: every
\* write of a stored conversation's participants is the write of a request
\* waiting at its save, computed from the participants that are stored when
\* it lands, so it cannot undo what another request wrote after this one
\* read the conversation.
C29_Writer(c, r) ==
  /\ reqs[r].kind \in {"members", "delete"} /\ reqs[r].pc = "save"
  /\ reqs[r].conv = c
  /\ reqs[r].loaded = convs[c].participants
  /\ convs'[c].participants = reqs[r].parts
  /\ (r \notin DOMAIN reqs' \/ reqs'[r] # reqs[r])

C29_Step ==
  \A c \in DOMAIN convs \cap DOMAIN convs' :
    convs'[c].participants # convs[c].participants
      => \E r \in InFlight : C29_Writer(c, r)

C29_NoLostUpdate == [][C29_Step]_vars

\* The admin's removal of C overlapped B's leave of the same group: the
\* removal was written, the leave computed from the earlier participants was
\* refused, and C is not reinstated.
C29_Witness ==
  /\ InFlight = {}
  /\ 1 \in DOMAIN convs /\ convs[1].type = "group" /\ convs[1].admin = "A"
  /\ convs[1].participants = {"A", "B"} /\ convs[1].v = 1
  /\ lastResp = [kind |-> "delete", user |-> "B", status |-> 500, body |-> NoConv]

\* C30: in every reachable state, an add request of a group's admin that
\* names only accepted friends, and whose named users united with the
\* participants make at most MAX_GROUP_SIZE members, is not answered 400 by
\* the handler's size check.
C30_AddAcceptedWithinLimit ==
  \A u \in Users, c \in Groups, mids \in IdLists :
    (/\ convs[c].admin = u
     /\ \A i \in DOMAIN mids :
          \E f \in friendships : /\ f.status = "accepted"
                                 /\ {f.requester, f.recipient} = {u, mids[i]}
     /\ Cardinality(convs[c].participants \cup Range(mids)) <= MAX_GROUP_SIZE)
      => MembersFound(u, c, "add", mids).status # 400

====
